---- MODULE Spec2Model ----
(***************************************************************************)
(* The Conversation aggregate of src/context_manager.py: the artifact      *)
(* store, its id assignment, text cleaning and the trace builder; the      *)
(* request handlers of src/app.py that own it; and the requirement and     *)
(* method classes of src/systems_mathematics.py.                           *)
(* Strings are sequences of one-character strings, so that the regular     *)
(* expressions of the source are modelled character by character.          *)
(***************************************************************************)
EXTENDS Integers, Sequences, FiniteSets, TLC

VARIABLES
    system_topic,      \* Conversation.system_topic
    artifacts,         \* Conversation.artifacts: a dict, kept in insertion order
    traces,            \* Conversation.traces: a list of <<from id, to id>>
    artifact_counter,  \* Conversation._artifact_counter
    hashseed,          \* the interpreter's string hash seed (fixed per process)
    op,                \* the method of Conversation that was called last
    exists,            \* the caller holds a Conversation (not None)
    raised,            \* the exception the last call raised, "" for none
    snapshot,          \* the dict to_dict returned last, <<>> before that
    context,           \* what get_context_for_text_generation returned last
    turn,              \* the request the application served last, <<>> for none
    verification       \* the last call on a requirement or a method, <<>> for none

vars == <<system_topic, artifacts, traces, artifact_counter, hashseed, op,
          exists, raised, snapshot, context, turn, verification>>

-----------------------------------------------------------------------------
(* Bounds of the model. *)

\* add_artifact synthesizes at most MaxCounter ids.
MaxCounter == 2
\* the hash seeds explored are 0..MaxSeed.
MaxSeed == 1

-----------------------------------------------------------------------------
(* Characters and the str methods the source uses. *)

UpperSeq == <<"A","B","C","D","E","F","G","H","I","J","K","L","M",
              "N","O","P","Q","R","S","T","U","V","W","X","Y","Z">>
LowerSeq == <<"a","b","c","d","e","f","g","h","i","j","k","l","m",
              "n","o","p","q","r","s","t","u","v","w","x","y","z">>
DigitSeq == <<"0","1","2","3","4","5","6","7","8","9">>

Range(s) == {s[i] : i \in DOMAIN s}

UpperLetters == Range(UpperSeq)
LowerLetters == Range(LowerSeq)
Digits == Range(DigitSeq)
\* \w of the re module (ASCII part)
WordChars == UpperLetters \cup LowerLetters \cup Digits \cup {"_"}
\* \s of the re module and str.isspace (ASCII part)
Whitespace == {" ", "\n", "\t", "\r"}

SetMax(S) == CHOOSE x \in S : \A y \in S : y <= x
SetMin(S) == CHOOSE x \in S : \A y \in S : x <= y

\* str.upper on one character
UpperChar(c) ==
    IF c \in LowerLetters
    THEN UpperSeq[CHOOSE i \in DOMAIN LowerSeq : LowerSeq[i] = c]
    ELSE c

\* str.upper
Upper(s) == [i \in 1..Len(s) |-> UpperChar(s[i])]

\* the decimal digits of a natural number
RECURSIVE Decimal(_)
Decimal(n) ==
    IF n < 10 THEN <<DigitSeq[n + 1]>>
    ELSE Decimal(n \div 10) \o <<DigitSeq[(n % 10) + 1]>>

\* int() of a string of digits
RECURSIVE ToInt(_)
ToInt(digits) ==
    IF digits = <<>> THEN 0
    ELSE 10 * ToInt(SubSeq(digits, 1, Len(digits) - 1))
         + ((CHOOSE d \in DOMAIN DigitSeq : DigitSeq[d] = digits[Len(digits)]) - 1)

\* the format specification {n:03d}
Format03d(n) ==
    LET d == Decimal(n)
    IN  IF Len(d) >= 3 THEN d ELSE [i \in 1..(3 - Len(d)) |-> "0"] \o d

\* the first position from i on that holds a character outside chars
RECURSIVE SkipForward(_, _, _)
SkipForward(s, i, chars) ==
    IF i > Len(s) \/ s[i] \notin chars THEN i ELSE SkipForward(s, i + 1, chars)

\* the last position up to i that holds a character outside chars
RECURSIVE SkipBackward(_, _, _)
SkipBackward(s, i, chars) ==
    IF i < 1 \/ s[i] \notin chars THEN i ELSE SkipBackward(s, i - 1, chars)

\* str.lstrip(chars)
LStripChars(s, chars) == SubSeq(s, SkipForward(s, 1, chars), Len(s))

\* str.strip(chars)
StripChars(s, chars) ==
    SubSeq(s, SkipForward(s, 1, chars), SkipBackward(s, Len(s), chars))

\* str.strip()
Strip(s) == StripChars(s, Whitespace)

-----------------------------------------------------------------------------
(* Pieces of the regular expressions. *)

\* \s* (greedy) from position i: the first position that holds no whitespace
SkipSpace(text, i) == SkipForward(text, i, Whitespace)

\* \d* (greedy) from position i: the last position of the run of digits
DigitRunEnd(text, i) == SkipForward(text, i, Digits) - 1

\* [A-Z]{2}-\d+ at position i: the last position of the match, 0 for none
IdEndAt(text, i) ==
    IF /\ i >= 1
       /\ i + 3 <= Len(text)
       /\ text[i] \in UpperLetters
       /\ text[i + 1] \in UpperLetters
       /\ text[i + 2] = "-"
       /\ text[i + 3] \in Digits
    THEN DigitRunEnd(text, i + 3)
    ELSE 0

\* a literal at position i; ignorecase as under re.IGNORECASE
MatchLit(text, i, lit, ignorecase) ==
    /\ i >= 1
    /\ i + Len(lit) - 1 <= Len(text)
    /\ \A k \in 1..Len(lit) :
          IF ignorecase
          THEN UpperChar(text[i + k - 1]) = UpperChar(lit[k])
          ELSE text[i + k - 1] = lit[k]

Hashes == <<"#", "#", "#">>

-----------------------------------------------------------------------------
(* Conversation._extract_or_generate_id *)

\* ###\s*([A-Z]{2}-\d+) matched at position i: group 1, <<>> for no match
HeaderIdAt(text, i) ==
    IF MatchLit(text, i, Hashes, FALSE)
    THEN LET j == SkipSpace(text, i + 3)
             e == IdEndAt(text, j)
         IN  IF e > 0 THEN SubSeq(text, j, e) ELSE <<>>
    ELSE <<>>

\* re.search(r'###\s*([A-Z]{2}-\d+)', text): group 1 of the leftmost match
RECURSIVE HeaderIdFrom(_, _)
HeaderIdFrom(text, i) ==
    IF i > Len(text) THEN <<>>
    ELSE LET m == HeaderIdAt(text, i)
         IN  IF m # <<>> THEN m ELSE HeaderIdFrom(text, i + 1)

HeaderId(text) == HeaderIdFrom(text, 1)

\* a variant that forgets to store the incremented counter
extract_or_generate_id_NoIncrement(counter, artifact_type, text) ==
    LET match == HeaderId(text)
    IN  IF match # <<>>
        THEN [id |-> match, counter |-> counter]
        ELSE [id |-> Upper(artifact_type) \o <<"-">> \o Format03d(counter + 1),
              counter |-> counter]

\* a variant that increments the counter before it looks for a header
extract_or_generate_id_CountsFirst(counter, artifact_type, text) ==
    LET match == HeaderId(text)
    IN  IF match # <<>>
        THEN [id |-> match, counter |-> counter + 1]
        ELSE [id |-> Upper(artifact_type) \o <<"-">> \o Format03d(counter + 1),
              counter |-> counter + 1]

extract_or_generate_id_CounterAhead(counter, artifact_type, text) ==
    LET match == HeaderId(text)
    IN  IF match # <<>>
        THEN [id |-> match, counter |-> counter]
        ELSE [id |-> Upper(artifact_type) \o <<"-">> \o Format03d(counter + 1),
              counter |-> counter + 2]

\* lines 116-122: the id returned and the counter the call leaves
extract_or_generate_id(counter, artifact_type, text) ==
    LET match == HeaderId(text)
    IN  IF match # <<>>
        THEN [id |-> match, counter |-> counter]
        ELSE [id |-> Upper(artifact_type) \o <<"-">> \o Format03d(counter + 1),
              counter |-> counter + 1]

-----------------------------------------------------------------------------
(* Conversation._clean_artifact_text *)

\* ^ID:\s*###\s*ID:\s* with re.IGNORECASE: the position after the match,
\* 0 for no match
CleanPrefixEnd(artifact_id, text) ==
    LET lit == artifact_id \o <<":">>
    IN  IF ~MatchLit(text, 1, lit, TRUE) THEN 0
        ELSE
        LET a == Len(lit) + 1
            \* \s* may give characters back to let ### match
            hs == {j \in a..SkipSpace(text, a) : MatchLit(text, j, Hashes, TRUE)}
        IN  IF hs = {} THEN 0
            ELSE
            LET b == SetMax(hs) + 3
                ids == {j \in b..SkipSpace(text, b) : MatchLit(text, j, lit, TRUE)}
            IN  IF ids = {} THEN 0
                ELSE SkipSpace(text, SetMax(ids) + Len(lit))

clean_artifact_text(artifact_id, text) ==
    LET e == CleanPrefixEnd(artifact_id, text)
    IN  Strip(IF e = 0 THEN text ELSE SubSeq(text, e, Len(text)))

-----------------------------------------------------------------------------
(* Conversation._parse_components *)

Bullet == <<"-", " ", "*", "*">>
LabelClose == <<":", "*", "*">>
Stars == <<"*", "*">>

StartsWith(s, lit) == MatchLit(s, 1, lit, FALSE)

\* str.split('\n')
RECURSIVE SplitLines(_)
SplitLines(s) ==
    LET nl == {i \in 1..Len(s) : s[i] = "\n"}
    IN  IF nl = {} THEN <<s>>
        ELSE <<SubSeq(s, 1, SetMin(nl) - 1)>>
             \o SplitLines(SubSeq(s, SetMin(nl) + 1, Len(s)))

\* ^- \*\* under re.MULTILINE at position i
OpensAt(text, i) ==
    /\ i = 1 \/ text[i - 1] = "\n"
    /\ MatchLit(text, i, Bullet, FALSE)

\* (.*?):\*\* under re.DOTALL after an opening at i: the position of the
\* nearest label close, on whatever line it is; 0 for none
LabelCloseAfter(text, i) ==
    LET cs == {c \in (i + 4)..Len(text) : MatchLit(text, c, LabelClose, FALSE)}
    IN  IF cs = {} THEN 0 ELSE SetMin(cs)

\* (.*?(?=\n^- \*\*|\Z)) from position b: the position after group 2
BlockEnd(text, b) ==
    SetMin({e \in b..(Len(text) + 1) :
              \/ e = Len(text) + 1
              \/ text[e] = "\n" /\ MatchLit(text, e + 1, Bullet, FALSE)})

\* lines 146-151: the details of a details block
RECURSIVE BlockDetails(_)
BlockDetails(lines) ==
    IF lines = <<>> THEN <<>>
    ELSE LET stripped_line == Strip(Head(lines))
         IN  IF stripped_line # <<>> /\ ~StartsWith(stripped_line, Bullet)
             THEN <<stripped_line>> \o BlockDetails(Tail(lines))
             ELSE BlockDetails(Tail(lines))

\* component_pattern.finditer(text) from position p on (lines 139-153)
RECURSIVE PrimaryComponents(_, _)
PrimaryComponents(text, p) ==
    LET starts == {i \in p..Len(text) :
                     OpensAt(text, i) /\ LabelCloseAfter(text, i) > 0}
    IN  IF starts = {} THEN <<>>
        ELSE LET i == SetMin(starts)
                 c == LabelCloseAfter(text, i)
                 e == BlockEnd(text, c + 3)
                 component_name == Strip(SubSeq(text, i + 4, c - 1))
                 details_block == Strip(SubSeq(text, c + 3, e - 1))
             IN  <<[name |-> component_name,
                    details |-> BlockDetails(SplitLines(details_block))]>>
                 \o PrimaryComponents(text, e)

\* line.split('**')[1] of a line that starts with '- **'
SecondStarPiece(line) ==
    LET nxt == {j \in 5..Len(line) : MatchLit(line, j, Stars, FALSE)}
    IN  IF nxt = {} THEN SubSeq(line, 5, Len(line))
        ELSE SubSeq(line, 5, SetMin(nxt) - 1)

\* lines 158-170: the fallback scan; current is <<>> for None, else a
\* one-element list holding the open component
RECURSIVE FallbackScan(_, _, _)
FallbackScan(lines, components, current) ==
    IF lines = <<>> THEN components \o current
    ELSE LET line == Strip(Head(lines))
         IN  IF StartsWith(line, Bullet)
             THEN FallbackScan(Tail(lines), components \o current,
                      <<[name |-> StripChars(SecondStarPiece(line), {":"}),
                         details |-> <<>>]>>)
             ELSE IF StartsWith(line, <<"-">>) /\ current # <<>>
             THEN FallbackScan(Tail(lines), components,
                      <<[current[1] EXCEPT !.details =
                           Append(@, Strip(LStripChars(line, {"-", " "})))]>>)
             ELSE IF current # <<>> /\ line # <<>>
             THEN FallbackScan(Tail(lines), components,
                      <<[current[1] EXCEPT !.details = Append(@, line)]>>)
             ELSE FallbackScan(Tail(lines), components, current)

parse_components_AlwaysFallback(text) ==
    FallbackScan(SplitLines(text), <<>>, <<>>)

parse_components(text) ==
    LET components == PrimaryComponents(text, 1)
    IN  IF components # <<>> THEN components
        ELSE FallbackScan(SplitLines(text), <<>>, <<>>)

-----------------------------------------------------------------------------
(* The artifact dict. *)

Keys(arts) == {arts[i].id : i \in DOMAIN arts}

IndexOf(arts, id) == CHOOSE i \in DOMAIN arts : arts[i].id = id

Get(arts, id) == arts[IndexOf(arts, id)]

DictSet_KeepFirst(arts, art) ==
    IF art.id \in Keys(arts) THEN arts ELSE Append(arts, art)

\* arts[id] = art: an existing key keeps its place, a new key goes last
DictSet(arts, art) ==
    IF art.id \in Keys(arts)
    THEN [arts EXCEPT ![IndexOf(arts, art.id)] = art]
    ELSE Append(arts, art)

-----------------------------------------------------------------------------
(* Conversation.build_traces *)

SR == <<"S", "R">>
SD == <<"S", "D">>
VR == <<"V", "R">>
VM == <<"V", "M">>

TokenEndAt_NoBoundary(text, i) == IdEndAt(text, i)

\* \b([A-Z]{2}-\d+)\b at position i: the last position of the match, 0 for
\* none. \d+ is greedy; giving digits back never produces a word boundary.
TokenEndAt(text, i) ==
    IF i = 1 \/ text[i - 1] \notin WordChars
    THEN LET e == IdEndAt(text, i)
         IN  IF e > 0 /\ (e = Len(text) \/ text[e + 1] \notin WordChars)
             THEN e ELSE 0
    ELSE 0

\* trace_pattern.findall(text) from position i on: the matches, left to right
RECURSIVE FindAllFrom(_, _)
FindAllFrom(text, i) ==
    IF i > Len(text) THEN <<>>
    ELSE LET e == TokenEndAt(text, i)
         IN  IF e > 0
             THEN <<SubSeq(text, i, e)>> \o FindAllFrom(text, e + 1)
             ELSE FindAllFrom(text, i + 1)

\* the distinct elements of a list, in order of first occurrence
RECURSIVE Distinct(_)
Distinct(list) ==
    IF list = <<>> THEN <<>>
    ELSE LET front == Distinct(SubSeq(list, 1, Len(list) - 1))
             last == list[Len(list)]
         IN  IF last \in Range(front) THEN front ELSE Append(front, last)

RECURSIVE Factorial(_)
Factorial(n) == IF n <= 1 THEN 1 ELSE n * Factorial(n - 1)

RemoveAt(list, i) == SubSeq(list, 1, i - 1) \o SubSeq(list, i + 1, Len(list))

\* the k-th permutation of a list
RECURSIVE NthPermutation(_, _)
NthPermutation(list, k) ==
    IF Len(list) <= 1 THEN list
    ELSE LET f == Factorial(Len(list) - 1)
             i == ((k \div f) % Len(list)) + 1
         IN  <<list[i]>> \o NthPermutation(RemoveAt(list, i), k % f)

\* iterating set(list): every element once, in an order that the hash seed
\* and the insertions determine and that is unrelated to the text order
SetIteration(seed, list) == NthPermutation(Distinct(list), seed)

\* a variant whose first branch keeps the order of the mention
TraceTuple_DesignFirst(source_id, source_type, target_id, target_type) ==
    IF source_type = SD /\ target_type = SR THEN <<source_id, target_id>>
    ELSE IF source_type = SR /\ target_type = SD THEN <<source_id, target_id>>
    ELSE IF source_type \in {VR, VM} /\ target_type = SR THEN <<target_id, source_id>>
    ELSE IF source_type = SR /\ target_type \in {VR, VM} THEN <<source_id, target_id>>
    ELSE IF source_type \in {VR, VM} /\ target_type = SD THEN <<target_id, source_id>>
    ELSE IF source_type = SD /\ target_type \in {VR, VM} THEN <<source_id, target_id>>
    ELSE <<>>

\* a variant that links the pairs of the table from the mentioning artifact
\* to the mentioned one
TraceTuple_AsMentioned(source_id, source_type, target_id, target_type) ==
    IF {source_type, target_type} \in
          {{SR, SD}, {SR, VR}, {SR, VM}, {SD, VR}, {SD, VM}}
    THEN <<source_id, target_id>>
    ELSE <<>>

\* a variant with a further rule from verification requirement to method
TraceTuple_VerificationChain(source_id, source_type, target_id, target_type) ==
    IF source_type = SD /\ target_type = SR THEN <<target_id, source_id>>
    ELSE IF source_type = SR /\ target_type = SD THEN <<source_id, target_id>>
    ELSE IF source_type \in {VR, VM} /\ target_type = SR THEN <<target_id, source_id>>
    ELSE IF source_type = SR /\ target_type \in {VR, VM} THEN <<source_id, target_id>>
    ELSE IF source_type \in {VR, VM} /\ target_type = SD THEN <<target_id, source_id>>
    ELSE IF source_type = SD /\ target_type \in {VR, VM} THEN <<source_id, target_id>>
    ELSE IF source_type = VM /\ target_type = VR THEN <<target_id, source_id>>
    ELSE IF source_type = VR /\ target_type = VM THEN <<source_id, target_id>>
    ELSE <<>>

\* a variant whose third branch writes target_id twice
TraceTuple_RepeatedTarget(source_id, source_type, target_id, target_type) ==
    IF source_type = SD /\ target_type = SR THEN <<target_id, source_id>>
    ELSE IF source_type = SR /\ target_type = SD THEN <<source_id, target_id>>
    ELSE IF source_type \in {VR, VM} /\ target_type = SR THEN <<target_id, target_id>>
    ELSE IF source_type = SR /\ target_type \in {VR, VM} THEN <<source_id, target_id>>
    ELSE IF source_type \in {VR, VM} /\ target_type = SD THEN <<target_id, source_id>>
    ELSE IF source_type = SD /\ target_type \in {VR, VM} THEN <<source_id, target_id>>
    ELSE <<>>

\* lines 77-101: the trace tuple of a mention, <<>> for None
TraceTuple(source_id, source_type, target_id, target_type) ==
    IF source_type = SD /\ target_type = SR THEN <<target_id, source_id>>
    ELSE IF source_type = SR /\ target_type = SD THEN <<source_id, target_id>>
    ELSE IF source_type \in {VR, VM} /\ target_type = SR THEN <<target_id, source_id>>
    ELSE IF source_type = SR /\ target_type \in {VR, VM} THEN <<source_id, target_id>>
    ELSE IF source_type \in {VR, VM} /\ target_type = SD THEN <<target_id, source_id>>
    ELSE IF source_type = SD /\ target_type \in {VR, VM} THEN <<source_id, target_id>>
    ELSE <<>>

\* a variant that appends without looking
AppendTrace_NoCheck(acc, trace_tuple) ==
    IF trace_tuple # <<>> THEN Append(acc, trace_tuple) ELSE acc

\* lines 103-106: append unless already present
AppendTrace(acc, trace_tuple) ==
    IF trace_tuple # <<>> /\ trace_tuple \notin Range(acc)
    THEN Append(acc, trace_tuple)
    ELSE acc

\* a variant that reads the target's type off its id instead of the dict
VisitTarget_TypeFromPrefix(arts, source, target_id, acc) ==
    IF source.id # target_id
    THEN AppendTrace(acc, TraceTuple(source.id, Get(arts, source.id).type,
                                     target_id, SubSeq(target_id, 1, 2)))
    ELSE acc

\* lines 69-111: one iteration of the inner loop
VisitTarget(arts, source, target_id, acc) ==
    IF target_id \in Keys(arts) /\ source.id # target_id
    THEN AppendTrace(acc, TraceTuple(source.id, Get(arts, source.id).type,
                                     target_id, Get(arts, target_id).type))
    ELSE acc

\* the inner loop over found_ids
RECURSIVE VisitTargets(_, _, _, _)
VisitTargets(arts, source, found, acc) ==
    IF found = <<>> THEN acc
    ELSE VisitTargets(arts, source, Tail(found),
                      VisitTarget(arts, source, Head(found), acc))

\* the outer loop over self.artifacts.items(), from the i-th item on
RECURSIVE VisitSources(_, _, _, _)
VisitSources(arts, seed, i, acc) ==
    IF i > Len(arts) THEN acc
    ELSE VisitSources(arts, seed, i + 1,
             VisitTargets(arts, arts[i],
                          SetIteration(seed, FindAllFrom(arts[i].text, 1)), acc))

ResetTraces_Keep(old) == old

\* line 55: the list the loops start from
ResetTraces(old) == <<>>

\* a variant that extends the old list by the pairs found
BuiltTraces_Extend(arts, seed, old) == old \o VisitSources(arts, seed, 1, <<>>)

\* the trace list build_traces leaves
BuiltTraces(arts, seed, old) == VisitSources(arts, seed, 1, ResetTraces(old))

-----------------------------------------------------------------------------
(* Conversation.add_artifact *)

\* lines 34-48: the dict and the counter after an insertion
AfterAdd(arts, counter, artifact_type, text) ==
    LET got == extract_or_generate_id(counter, artifact_type, text)
        artifact_id == got.id
        cleaned_text == clean_artifact_text(artifact_id, text)
    IN  [artifacts |->
            IF artifact_id = <<>> THEN arts
            ELSE DictSet(arts, [id |-> artifact_id,
                                type |-> artifact_type,
                                text |-> cleaned_text,
                                components |-> parse_components(cleaned_text)]),
         counter |-> got.counter]

\* to_dict hands out self.artifacts itself (line 202), and from_dict keeps
\* the dict it is given (line 213): the dict of the snapshot and the dict of
\* the Conversation are one object, so an insertion shows in both
SharedDict(snap, arts) ==
    IF snap = <<>> \/ "artifacts" \notin snap[1].present THEN snap
    ELSE <<[snap[1] EXCEPT !.artifacts = arts]>>

add_artifact_NoTypeCheck(artifact_type, text) ==
    /\ exists
    /\ IF text = <<>>
       THEN UNCHANGED <<artifacts, artifact_counter, snapshot>>
       ELSE LET after == AfterAdd(artifacts, artifact_counter, artifact_type, text)
            IN  /\ after.counter <= MaxCounter
                /\ artifacts' = after.artifacts
                /\ artifact_counter' = after.counter
                /\ snapshot' = SharedDict(snapshot, after.artifacts)
    /\ op' = "add_artifact"
    /\ raised' = ""
    /\ UNCHANGED <<system_topic, traces, hashseed, exists, context, turn,
                   verification>>

add_artifact_ResetsTraces(artifact_type, text) ==
    /\ exists
    /\ IF artifact_type = <<>> \/ text = <<>>
       THEN UNCHANGED <<artifacts, artifact_counter, snapshot>>
       ELSE LET after == AfterAdd(artifacts, artifact_counter, artifact_type, text)
            IN  /\ after.counter <= MaxCounter
                /\ artifacts' = after.artifacts
                /\ artifact_counter' = after.counter
                /\ snapshot' = SharedDict(snapshot, after.artifacts)
    /\ op' = "add_artifact"
    /\ raised' = ""
    /\ traces' = <<>>
    /\ UNCHANGED <<system_topic, hashseed, exists, context, turn,
                   verification>>

add_artifact_DropsPairsOfId(artifact_type, text) ==
    /\ exists
    /\ IF artifact_type = <<>> \/ text = <<>>
       THEN UNCHANGED <<artifacts, artifact_counter, snapshot, traces>>
       ELSE LET after == AfterAdd(artifacts, artifact_counter, artifact_type, text)
                artifact_id == extract_or_generate_id(artifact_counter,
                                                      artifact_type, text).id
            IN  /\ after.counter <= MaxCounter
                /\ artifacts' = after.artifacts
                /\ artifact_counter' = after.counter
                /\ snapshot' = SharedDict(snapshot, after.artifacts)
                /\ traces' = SelectSeq(traces,
                       LAMBDA pair : artifact_id \notin {pair[1], pair[2]})
    /\ op' = "add_artifact"
    /\ raised' = ""
    /\ UNCHANGED <<system_topic, hashseed, exists, context, turn,
                   verification>>

add_artifact(artifact_type, text) ==
    /\ exists
    /\ IF artifact_type = <<>> \/ text = <<>>
       THEN UNCHANGED <<artifacts, artifact_counter, snapshot>>
       ELSE LET after == AfterAdd(artifacts, artifact_counter, artifact_type, text)
            IN  /\ after.counter <= MaxCounter
                /\ artifacts' = after.artifacts
                /\ artifact_counter' = after.counter
                /\ snapshot' = SharedDict(snapshot, after.artifacts)
    /\ op' = "add_artifact"
    /\ raised' = ""
    /\ UNCHANGED <<system_topic, traces, hashseed, exists, context, turn,
                   verification>>

build_traces ==
    /\ exists
    /\ traces' = BuiltTraces(artifacts, hashseed, traces)
    /\ op' = "build_traces"
    /\ raised' = ""
    /\ UNCHANGED <<system_topic, artifacts, artifact_counter, hashseed,
                   exists, snapshot, context, turn, verification>>

-----------------------------------------------------------------------------
(* Construction, the snapshot and the prompt context. *)

\* the values a caller may pass where a string is expected
PyStr(chars) == [kind |-> "str", val |-> chars]
PyNone == [kind |-> "NoneType", val |-> <<>>]
PyList(items) == [kind |-> "list", val |-> items]

\* bool(value): None, '' and [] are false
Truthy(value) == value.val # <<>>

\* isinstance(value, str)
IsStr(value) == value.kind = "str"

\* the condition under which __init__ raises ValueError
InitRaises_EmptyOnly(topic) == ~Truthy(topic)

InitRaises(topic) == ~Truthy(topic) \/ ~IsStr(topic)

\* Conversation(topic): the first thing the caller does
Conversation_init(topic) ==
    /\ op = "start"
    /\ IF InitRaises(topic)
       THEN /\ raised' = "ValueError"
            /\ exists' = FALSE
            /\ UNCHANGED system_topic
       ELSE /\ raised' = ""
            /\ exists' = TRUE
            /\ system_topic' = topic.val
    /\ artifacts' = <<>>
    /\ traces' = <<>>
    /\ artifact_counter' = 0
    /\ op' = "__init__"
    /\ UNCHANGED <<hashseed, snapshot, context, turn, verification>>

AllKeys == {"system_topic", "artifacts", "traces"}

\* the dict to_dict returns: three keys, no counter
ToDict(topic, arts, trs) ==
    [present |-> AllKeys, system_topic |-> PyStr(topic),
     artifacts |-> arts, traces |-> trs]

to_dict ==
    /\ exists
    /\ snapshot' = <<ToDict(system_topic, artifacts, traces)>>
    /\ op' = "to_dict"
    /\ raised' = ""
    /\ UNCHANGED <<system_topic, artifacts, traces, artifact_counter,
                   hashseed, exists, context, turn, verification>>

\* re.search(r'-(\d+)', art_id): the digits after the first hyphen that is
\* followed by a digit, <<>> for no match
RECURSIVE HyphenNumberFrom(_, _)
HyphenNumberFrom(art_id, i) ==
    IF i >= Len(art_id) THEN <<>>
    ELSE IF art_id[i] = "-" /\ art_id[i + 1] \in Digits
         THEN SubSeq(art_id, i + 1, DigitRunEnd(art_id, i + 1))
         ELSE HyphenNumberFrom(art_id, i + 1)

\* the loop of from_dict over the keys, from the i-th one on
RECURSIVE MaxCounterFrom(_, _, _)
MaxCounterFrom(arts, i, max_counter) ==
    IF i > Len(arts) THEN max_counter
    ELSE LET match == HyphenNumberFrom(arts[i].id, 1)
             num == ToInt(match)
         IN  MaxCounterFrom(arts, i + 1,
                 IF match # <<>> /\ num > max_counter THEN num ELSE max_counter)

RecountedCounter_KeyCount(arts) == Len(arts)

RecountedCounter_Zero(arts) == 0

\* the counter from_dict gives the Conversation it builds
RecountedCounter(arts) == MaxCounterFrom(arts, 1, 0)

\* data.get('artifacts', {}) and data.get('traces', [])
DataGet(data, key, default) ==
    IF key \in data.present THEN data[key] ELSE default

FromDict_DropsTraces(data) ==
    IF data.present = {} \/ "system_topic" \notin data.present
    THEN [outcome |-> "None"]
    ELSE IF InitRaises(data.system_topic)
    THEN [outcome |-> "ValueError"]
    ELSE [outcome |-> "Conversation",
          system_topic |-> data.system_topic.val,
          artifacts |-> DataGet(data, "artifacts", <<>>),
          traces |-> <<>>,
          counter |-> RecountedCounter(DataGet(data, "artifacts", <<>>))]

\* what Conversation.from_dict(data) gives: None, the error of __init__, or
\* a Conversation holding the dict and the list of data
FromDict(data) ==
    IF data.present = {} \/ "system_topic" \notin data.present
    THEN [outcome |-> "None"]
    ELSE IF InitRaises(data.system_topic)
    THEN [outcome |-> "ValueError"]
    ELSE [outcome |-> "Conversation",
          system_topic |-> data.system_topic.val,
          artifacts |-> DataGet(data, "artifacts", <<>>),
          traces |-> DataGet(data, "traces", <<>>),
          counter |-> RecountedCounter(DataGet(data, "artifacts", <<>>))]

\* conversation = Conversation.from_dict(data): the caller now holds what
\* from_dict gave, and no Conversation when it gave None or raised
from_dict(data) ==
    LET got == FromDict(data)
    IN  /\ IF got.outcome = "Conversation"
           THEN /\ exists' = TRUE
                /\ raised' = ""
                /\ system_topic' = got.system_topic
                /\ artifacts' = got.artifacts
                /\ traces' = got.traces
                /\ artifact_counter' = got.counter
           ELSE /\ exists' = FALSE
                /\ raised' = (IF got.outcome = "None" THEN "" ELSE got.outcome)
                /\ system_topic' = <<>>
                /\ artifacts' = <<>>
                /\ traces' = <<>>
                /\ artifact_counter' = 0
        /\ op' = "from_dict"
        /\ UNCHANGED <<hashseed, snapshot, context, turn, verification>>

TopicKey == <<"s", "y", "s", "t", "e", "m", "_", "t", "o", "p", "i", "c">>

ContextOf_NoTopic(topic, arts) ==
    [i \in DOMAIN arts |-> [key |-> arts[i].id, value |-> arts[i]]]

\* {"system_topic": topic, **artifacts}: the entries in the dict's order; a
\* key of artifacts equal to 'system_topic' takes the place of the topic
ContextOf(topic, arts) ==
    LET clash == {i \in DOMAIN arts : arts[i].id = TopicKey}
        rest == SelectSeq(arts, LAMBDA art : art.id # TopicKey)
    IN  <<[key |-> TopicKey,
           value |-> IF clash = {} THEN topic ELSE Get(arts, TopicKey)]>>
        \o [i \in DOMAIN rest |-> [key |-> rest[i].id, value |-> rest[i]]]

get_context_for_text_generation ==
    /\ exists
    /\ context' = ContextOf(system_topic, artifacts)
    /\ op' = "get_context_for_text_generation"
    /\ raised' = ""
    /\ UNCHANGED <<system_topic, artifacts, traces, artifact_counter,
                   hashseed, exists, snapshot, turn, verification>>

-----------------------------------------------------------------------------
(* Inputs: the types and texts the callers pass in. *)

Str_SR001 == <<"S", "R", "-", "0", "0", "1">>
Str_SD002 == <<"S", "D", "-", "0", "0", "2">>
Str_SR003 == <<"S", "R", "-", "0", "0", "3">>
Str_ZZ999 == <<"Z", "Z", "-", "9", "9", "9">>
Space == <<" ">>
Unknown == <<"U", "n", "k", "n", "o", "w", "n">>

\* '### <id>: ', the header the generator is asked to write
HeaderLine(id) == Hashes \o Space \o id \o <<":", " ">>

\* '<id>: ### <id>: ', the duplicated header _clean_artifact_text removes
DuplicatedHeader(id) == id \o <<":", " ">> \o HeaderLine(id)

Types == {SR, SD, VR, VM}

\* the bodies written under a header: no reference, the other id twice,
\* the other id and an id that is never stored
Bodies(other) == {
    <<"x">>,
    other \o Space \o other,
    other \o Space \o Str_ZZ999 }

Texts ==
    {HeaderLine(Str_SR001) \o b : b \in Bodies(Str_SD002)}
    \cup {HeaderLine(Str_SD002) \o b : b \in Bodies(Str_SR001)}

\* Spec: two headed artifacts of any types that may refer to each other
Inputs == [type : Types, text : Texts]

\* SpecThree: a requirement, a design, and headerless verification
\* artifacts that refer to both
InputsThree == {
    [type |-> SR, text |-> HeaderLine(Str_SR001) \o <<"x">>],
    [type |-> SR, text |-> HeaderLine(Str_SR001) \o Str_SD002 \o Space \o Str_ZZ999],
    [type |-> SD, text |-> HeaderLine(Str_SD002) \o <<"x">>],
    [type |-> SD, text |-> HeaderLine(Str_SD002) \o Str_SR001 \o Space \o Str_SR001],
    [type |-> VR, text |-> HeaderLine(Str_SD002) \o <<"x">>],
    [type |-> VM, text |-> Str_SR001 \o Space \o Str_SD002],
    [type |-> VR, text |-> Str_SD002 \o Space \o Str_SR001] }

\* SpecIds: texts that dictate an id, each with the id it dictates, and
\* texts that leave the id to the store
HeadedTexts == {
    [id |-> Str_SR001, text |-> HeaderLine(Str_SR001) \o <<"x">>],
    [id |-> Str_SD002, text |-> HeaderLine(Str_SD002) \o <<"x">>],
    [id |-> Str_SR003, text |-> DuplicatedHeader(Str_SR003) \o <<"x">>] }

HeadedTypes == {SR, VM}

HeaderlessInputs == {
    [type |-> SR, text |-> <<"x">>],
    [type |-> SD, text |-> <<"x">>] }

InputsIds ==
    {[type |-> ty, text |-> h.text] : ty \in HeadedTypes, h \in HeadedTexts}
    \cup HeaderlessInputs

\* SpecFresh: only texts without a header, of the types the application
\* passes (app.py, lines 91-95) and a lower-case one
InputsFresh ==
    [type : {SR, SD, VM, Unknown, <<"s", "r">>},
     text : {<<"x">>, Str_SR001 \o <<" ", "x">>}]

Topics == {<<"d", "r", "o", "n", "e">>}

-----------------------------------------------------------------------------
(* Conversation.__init__ and the behaviours. *)

Init ==
    /\ system_topic \in Topics
    /\ artifacts = <<>>
    /\ traces = <<>>
    /\ artifact_counter = 0
    /\ hashseed \in 0..MaxSeed
    /\ op = "__init__"
    /\ exists = TRUE
    /\ raised = ""
    /\ snapshot = <<>>
    /\ context = <<>>
    /\ turn = <<>>
    /\ verification = <<>>

Next ==
    \/ \E input \in Inputs : add_artifact(input.type, input.text)
    \/ build_traces

Spec == Init /\ [][Next]_vars

NextThree ==
    \/ \E input \in InputsThree : add_artifact(input.type, input.text)
    \/ build_traces

SpecThree == Init /\ [][NextThree]_vars

NextIds ==
    \/ \E input \in InputsIds : add_artifact(input.type, input.text)
    \/ build_traces

SpecIds == Init /\ [][NextIds]_vars

NextFresh ==
    \/ \E input \in InputsFresh : add_artifact(input.type, input.text)
    \/ build_traces

SpecFresh == Init /\ [][NextFresh]_vars

\* The life of a Conversation between requests: it is constructed once, and
\* from then on saved with to_dict and restored with from_dict.

\* what a caller may pass as the topic
TopicInputs ==
    {PyStr(topic) : topic \in Topics}
    \cup {PyStr(<<>>), PyNone, PyList(<<"d", "r", "o", "n", "e">>)}

\* {} , a dict without the topic key, and a dict whose topic is ''
EmptyPayload ==
    [present |-> {}, system_topic |-> PyNone, artifacts |-> <<>>, traces |-> <<>>]

NoTopicPayload ==
    [present |-> {"artifacts", "traces"}, system_topic |-> PyNone,
     artifacts |-> <<>>, traces |-> <<>>]

EmptyTopicPayload ==
    [present |-> AllKeys, system_topic |-> PyStr(<<>>),
     artifacts |-> <<>>, traces |-> <<>>]

\* the dicts from_dict is called with: the saved snapshot, or a broken one
Payloads ==
    {EmptyPayload, NoTopicPayload, EmptyTopicPayload} \cup Range(snapshot)

\* the line '- **C:** d', which parses to the component C with detail d
ComponentLine == <<"\n", "-", " ", "*", "*", "C", ":", "*", "*", " ", "d">>

\* ids dictated by a header and ids synthesized from the counter
InputsSession == {
    [type |-> SR, text |-> HeaderLine(Str_SR001) \o <<"x">> \o ComponentLine],
    [type |-> SD, text |-> HeaderLine(Str_SD002) \o Str_SR001],
    [type |-> SD, text |-> <<"x">>],
    [type |-> VM, text |-> Str_SR001] }

InitStart ==
    /\ system_topic = <<>>
    /\ artifacts = <<>>
    /\ traces = <<>>
    /\ artifact_counter = 0
    /\ hashseed \in 0..MaxSeed
    /\ op = "start"
    /\ exists = FALSE
    /\ raised = ""
    /\ snapshot = <<>>
    /\ context = <<>>
    /\ turn = <<>>
    /\ verification = <<>>

NextSession ==
    \/ \E topic \in TopicInputs : Conversation_init(topic)
    \/ \E input \in InputsSession : add_artifact(input.type, input.text)
    \/ build_traces
    \/ to_dict
    \/ \E data \in Payloads : from_dict(data)

SpecSession == InitStart /\ [][NextSession]_vars

\* What the generator may hand to the store: a duplicated header, once and
\* twice in a row; a second text for the same id, of another type and with a
\* component; texts without a header for a type of the table, for the type
\* 'Unknown' and for a verification method that mentions the requirement;
\* a text that holds the id inside a longer word; a missing type or text.
Str_SR003_x == Str_SR003 \o <<"_", "x">>

InputsStore == {
    [type |-> SR, text |-> DuplicatedHeader(Str_SR003) \o <<"x">>],
    [type |-> SR,
     text |-> DuplicatedHeader(Str_SR003) \o DuplicatedHeader(Str_SR003) \o <<"x">>],
    [type |-> VM, text |-> HeaderLine(Str_SR003) \o <<"y">> \o ComponentLine],
    [type |-> SD, text |-> Str_SR003_x],
    [type |-> Unknown, text |-> <<"x">>],
    [type |-> VM, text |-> Str_SR003],
    [type |-> <<>>, text |-> <<"x">>],
    [type |-> SR, text |-> <<>>] }

NextStore ==
    \/ \E input \in InputsStore : add_artifact(input.type, input.text)
    \/ build_traces

SpecStore == Init /\ [][NextStore]_vars

\* Texts with component lines. Opening(name) is the line '- **name:**'.
Opening(name) == Bullet \o name \o LabelClose

NL == <<"\n">>

\* '- **B** y': a line that starts like an opening but has no ':**'
UnlabelledLine == Bullet \o <<"B">> \o Stars \o <<" ", "y">>

ParseBodies == {
    <<"x">>,
    Opening(<<"A">>) \o <<" ", "x">>,
    Opening(<<"A">>) \o <<" ", "x">> \o NL \o <<"y">> \o NL \o NL
        \o Opening(<<"C">>) \o NL \o <<"w">>,
    Opening(<<"A">>) \o <<" ", "x">> \o NL \o UnlabelledLine \o NL
        \o Opening(<<"C">>) \o <<" ", "z">>,
    Bullet \o <<"A">> \o Stars \o <<":", " ", "x">> \o NL \o <<"-", " ", "y">>,
    Bullet \o <<"A">> \o Stars \o NL \o <<"-">> }

\* a requirement SR-001 and a design SD-002, each with any of the bodies
InputsParse ==
    {[type |-> SR, text |-> HeaderLine(Str_SR001) \o <<"P">> \o NL \o body] :
        body \in ParseBodies}
    \cup {[type |-> SD, text |-> HeaderLine(Str_SD002) \o <<"Q">> \o NL \o body] :
        body \in ParseBodies}

NextParse ==
    \/ \E input \in InputsParse : add_artifact(input.type, input.text)
    \/ build_traces

SpecParse == Init /\ [][NextParse]_vars

\* chat reads the prompt context before it stores the generated text
\* (app.py, lines 100-101)
NextContext ==
    \/ \E input \in InputsSession : add_artifact(input.type, input.text)
    \/ build_traces
    \/ get_context_for_text_generation

SpecContext == Init /\ [][NextContext]_vars

-----------------------------------------------------------------------------
(* The requirement and method classes of src/systems_mathematics.py, with  *)
(* the callables and the designs of src/system_verification.py.            *)

PyBool(b) == [kind |-> "bool", val |-> b]
PyInt(n) == [kind |-> "int", val |-> n]

\* the transition tables a design is built with: the one of setUp, where
\* IoX1 leads to S1 and IoX2 to S2, and one where every input leads to S1
Transitions(states, inputs, table) ==
    { <<state, inp, next_state>> \in states \X inputs \X states :
         IF table = "setUp"
         THEN next_state = (IF inp = "IoX1" THEN "S1" ELSE "S2")
         ELSE next_state = "S1" }

\* SystemDesign(...): the fields the callables read
SystemDesign(states, inputs, table) ==
    [S |-> states, X |-> inputs, N |-> Transitions(states, inputs, table)]

\* the callables a requirement is built with, by name; the last one returns
\* a number, which the constructors accept as they accept any callable
Callables == {"at_least_two_states", "more_than_five_inputs",
              "IoX2_leads_to_S2", "IoX1_exists", "number_of_states"}

\* f(model)
Call(f, model) ==
    CASE f = "at_least_two_states" -> PyBool(Cardinality(model.S) >= 2)
      [] f = "more_than_five_inputs" -> PyBool(Cardinality(model.X) > 5)
      [] f = "IoX2_leads_to_S2" ->
            PyBool(\A step \in model.N : step[2] = "IoX2" => step[3] = "S2")
      [] f = "IoX1_exists" -> PyBool("IoX1" \in model.X)
      [] f = "number_of_states" -> PyInt(Cardinality(model.S))

SystemRequirement(sr_id, predicate) == [id |-> sr_id, predicate |-> predicate]

VerificationRequirement(vr_id, verification_property) ==
    [id |-> vr_id, property |-> verification_property]

VerificationMethod(vm_id, parameterization, target_vr, related_design) ==
    [id |-> vm_id, parameterization |-> parameterization,
     target_vr |-> target_vr, related_design |-> related_design]

\* SystemRequirement.check
check(self, model) == Call(self.predicate, model)

\* VerificationRequirement.verify
verify(self, design) == Call(self.property, design)

execute_OnlyWithoutParameters(self) ==
    IF self.parameterization = <<>>
    THEN verify(self.target_vr, self.related_design)
    ELSE PyBool(FALSE)

\* VerificationMethod.execute: the parameters are printed and not used
execute(self) == verify(self.target_vr, self.related_design)

Designs ==
    { SystemDesign(states, inputs, table) :
        states \in SUBSET {"S1", "S2"}, inputs \in SUBSET {"IoX1", "IoX2"},
        table \in {"setUp", "all to S1"} }

Parameterizations == { <<>>, <<[key |-> "TestParam", value |-> 123]>> }

SystemRequirement_check(sr, model) ==
    /\ verification' = <<[call |-> "check", self |-> sr, model |-> model,
                          returned |-> check(sr, model)]>>
    /\ UNCHANGED <<system_topic, artifacts, traces, artifact_counter,
                   hashseed, op, exists, raised, snapshot, context, turn>>

VerificationRequirement_verify(vr, design) ==
    /\ verification' = <<[call |-> "verify", self |-> vr, design |-> design,
                          returned |-> verify(vr, design)]>>
    /\ UNCHANGED <<system_topic, artifacts, traces, artifact_counter,
                   hashseed, op, exists, raised, snapshot, context, turn>>

VerificationMethod_execute(vm) ==
    /\ verification' = <<[call |-> "execute", self |-> vm,
                          returned |-> execute(vm)]>>
    /\ UNCHANGED <<system_topic, artifacts, traces, artifact_counter,
                   hashseed, op, exists, raised, snapshot, context, turn>>

NextVerification ==
    \/ \E f \in Callables, model \in Designs :
          SystemRequirement_check(SystemRequirement("SR", f), model)
    \/ \E f \in Callables, design \in Designs :
          VerificationRequirement_verify(VerificationRequirement("VR", f),
                                         design)
    \/ \E f \in Callables, design \in Designs, params \in Parameterizations :
          VerificationMethod_execute(
              VerificationMethod("VM", params,
                                 VerificationRequirement("VR", f), design))

SpecVerification == Init /\ [][NextVerification]_vars

-----------------------------------------------------------------------------
(* The request handlers of src/app.py and generate_morphism_proof of       *)
(* src/api_integration.py. A handler is one step: it reads the session,    *)
(* holds a Conversation of its own and answers. Between requests the       *)
(* variable snapshot is session['conversation'] as the session cookie      *)
(* keeps it, and the Conversation variables show the object the last       *)
(* handler held when it answered.                                          *)

\* str.lower on one character
LowerChar(c) ==
    IF c \in UpperLetters
    THEN LowerSeq[CHOOSE i \in DOMAIN UpperSeq : UpperSeq[i] = c]
    ELSE c

\* str.lower
Lower(s) == [i \in 1..Len(s) |-> LowerChar(s[i])]

\* lit in text
Contains(text, lit) == \E i \in 1..Len(text) : MatchLit(text, i, lit, FALSE)

Str_for ==
    <<"f", "o", "r">>
Str_create_system_requirements_for ==
    <<"c", "r", "e", "a", "t", "e", " ", "s", "y", "s", "t", "e", "m", " ",
      "r", "e", "q", "u", "i", "r", "e", "m", "e", "n", "t", "s", " ", "f",
      "o", "r">>
Str_system_requirements ==
    <<"s", "y", "s", "t", "e", "m", " ", "r", "e", "q", "u", "i", "r", "e",
      "m", "e", "n", "t", "s">>
Str_system_design ==
    <<"s", "y", "s", "t", "e", "m", " ", "d", "e", "s", "i", "g", "n">>
Str_verification_requirement ==
    <<"v", "e", "r", "i", "f", "i", "c", "a", "t", "i", "o", "n", " ", "r",
      "e", "q", "u", "i", "r", "e", "m", "e", "n", "t">>
Str_verification_model ==
    <<"v", "e", "r", "i", "f", "i", "c", "a", "t", "i", "o", "n", " ", "m",
      "o", "d", "e", "l">>
Str_morphism_proof ==
    <<"m", "o", "r", "p", "h", "i", "s", "m", "_", "p", "r", "o", "o", "f">>
Str_Homomorphism_Proof ==
    <<"H", "o", "m", "o", "m", "o", "r", "p", "h", "i", "s", "m", " ", "P",
      "r", "o", "o", "f">>

\* the keywords of a visualization request (line 58)
Keywords ==
    { <<"v", "i", "s", "u", "a", "l", "i", "z", "e">>,
      <<"g", "r", "a", "p", "h">>,
      <<"d", "i", "a", "g", "r", "a", "m">>,
      <<"v", "i", "s", "u", "a", "l", "i", "z", "a", "t", "i", "o", "n">> }

\* (.*?)(?:\.|$) from position j: the position where the lazy group ends,
\* at the first '.', at the end of the string or before a line break that
\* ends the string; 0 when a line break inside the string comes first
RECURSIVE TailEnd(_, _)
TailEnd(prompt, j) ==
    IF j > Len(prompt) THEN j
    ELSE IF prompt[j] = "." THEN j
    ELSE IF prompt[j] = "\n" THEN (IF j = Len(prompt) THEN j ELSE 0)
    ELSE TailEnd(prompt, j + 1)

\* re.search(r'for\s(.*?)(?:\.|$)', prompt, re.IGNORECASE) from position i
RECURSIVE TopicMatchFrom(_, _)
TopicMatchFrom(prompt, i) ==
    IF i + 3 > Len(prompt) THEN [matched |-> FALSE]
    ELSE IF /\ MatchLit(prompt, i, Str_for, TRUE)
            /\ prompt[i + 3] \in Whitespace
            /\ TailEnd(prompt, i + 4) # 0
    THEN [matched |-> TRUE,
          group1 |-> SubSeq(prompt, i + 4, TailEnd(prompt, i + 4) - 1)]
    ELSE TopicMatchFrom(prompt, i + 1)

\* (?:and|to)\s+(?:a\s+)?(.*?)(?:\.|$) at position f
ConjAt(prompt, f) ==
    LET q == IF MatchLit(prompt, f, <<"a", "n", "d">>, TRUE) THEN f + 3
             ELSE IF MatchLit(prompt, f, <<"t", "o">>, TRUE) THEN f + 2
             ELSE 0
        r == SkipSpace(prompt, q)
        start == IF /\ r + 1 <= Len(prompt)
                    /\ prompt[r] \in {"a", "A"}
                    /\ prompt[r + 1] \in Whitespace
                 THEN SkipSpace(prompt, r + 1)
                 ELSE r
    IN  IF q = 0 \/ r = q \/ TailEnd(prompt, start) = 0
        THEN [matched |-> FALSE]
        ELSE [matched |-> TRUE,
              group2 |-> SubSeq(prompt, start, TailEnd(prompt, start) - 1)]

\* \s+(?:and|to)... at position e
RestAt(prompt, e) ==
    IF SkipSpace(prompt, e) = e THEN [matched |-> FALSE]
    ELSE ConjAt(prompt, SkipSpace(prompt, e))

\* the lazy group 1 from position e: the first end from which the rest
\* matches, 0 for none; the group does not cross a line break
RECURSIVE Group1End(_, _)
Group1End(prompt, e) ==
    IF e > Len(prompt) THEN 0
    ELSE IF RestAt(prompt, e).matched THEN e
    ELSE IF prompt[e] = "\n" THEN 0
    ELSE Group1End(prompt, e + 1)

\* the pattern of line 127 with its 'for' at position i: \s+ takes all the
\* whitespace and group 1 is the shortest that lets the rest match; failing
\* that, \s+ gives one character back and group 1 is empty
MorphismMatchAt(prompt, i) ==
    LET p == SkipSpace(prompt, i + 3)
        e == Group1End(prompt, p)
    IN  IF ~MatchLit(prompt, i, Str_for, TRUE) \/ p = i + 3
        THEN [matched |-> FALSE]
        ELSE IF e # 0
        THEN [matched |-> TRUE, group1 |-> SubSeq(prompt, p, e - 1),
              group2 |-> RestAt(prompt, e).group2]
        ELSE IF p - (i + 3) >= 2 /\ ConjAt(prompt, p).matched
        THEN [matched |-> TRUE, group1 |-> <<>>,
              group2 |-> ConjAt(prompt, p).group2]
        ELSE [matched |-> FALSE]

\* re.search(r'for\s+(.*?)\s+(?:and|to)\s+(?:a\s+)?(.*?)(?:\.|$)', prompt,
\* re.IGNORECASE) from position i
RECURSIVE MorphismMatchFrom(_, _)
MorphismMatchFrom(prompt, i) ==
    IF i > Len(prompt) THEN [matched |-> FALSE]
    ELSE IF MorphismMatchAt(prompt, i).matched THEN MorphismMatchAt(prompt, i)
    ELSE MorphismMatchFrom(prompt, i + 1)

\* the Conversation a handler holds
Conv(topic, arts, trs, counter) ==
    [system_topic |-> topic, artifacts |-> arts, traces |-> trs,
     counter |-> counter]

\* conversation.add_artifact(artifact_type, text) on that Conversation
Added(conversation, artifact_type, text) ==
    IF artifact_type = <<>> \/ text = <<>> THEN conversation
    ELSE LET after == AfterAdd(conversation.artifacts, conversation.counter,
                               artifact_type, text)
         IN  [conversation EXCEPT !.artifacts = after.artifacts,
                                  !.counter = after.counter]

\* conversation.to_dict() of that Conversation
Saved(conversation) ==
    <<ToDict(conversation.system_topic, conversation.artifacts,
             conversation.traces)>>

\* Conversation.from_dict(conversation_data) if conversation_data else None
Loaded(session) ==
    IF session = <<>> \/ session[1].present = {} THEN [outcome |-> "None"]
    ELSE FromDict(session[1])

LoadCalls(session) ==
    IF session = <<>> \/ session[1].present = {} THEN <<>>
    ELSE <<"from_dict">>

\* the type chat stores the generated text under (lines 94-98)
ArtifactTypeOf(lowered) ==
    IF Contains(lowered, Str_system_requirements) THEN SR
    ELSE IF Contains(lowered, Str_system_design) THEN SD
    ELSE IF Contains(lowered, Str_verification_requirement) THEN VR
    ELSE IF Contains(lowered, Str_verification_model) THEN VM
    ELSE Unknown

\* what a handler leaves behind: the status of its response, the
\* Conversation it held (<<>> for None), session['conversation'] as the
\* cookie keeps it, the calls it made on the Conversation class in order
\* ("to_dict" is session['conversation'] = conversation.to_dict()), the
\* exception it met, the prompt context it read and the type it stored
Answer(status, held, session, calls, exception, read, artifact_type) ==
    [status |-> status, held |-> held, session |-> session, calls |-> calls,
     raised |-> exception, context |-> read, artifact_type |-> artifact_type]

\* chat (lines 27-113). The test of line 60 never holds, since __init__ has
\* refused an empty topic, and is left out.
chat_answer(session, form_prompt, generated) ==
    LET prompt == Strip(form_prompt)
        lowered == Lower(prompt)
        loaded == Loaded(session)
        load_calls == LoadCalls(session)
        kept == /\ loaded.outcome = "Conversation"
                /\ ~Contains(lowered, Str_create_system_requirements_for)
        topic_match == TopicMatchFrom(prompt, 1)
        topic == Strip(topic_match.group1)
        conversation ==
            IF kept
            THEN Conv(loaded.system_topic, loaded.artifacts, loaded.traces,
                      loaded.counter)
            ELSE Conv(topic, <<>>, <<>>, 0)
        calls == IF kept THEN load_calls
                 ELSE load_calls \o <<"__init__", "to_dict">>
        session_now == IF kept THEN session ELSE Saved(conversation)
        read == <<ContextOf(conversation.system_topic,
                            conversation.artifacts)>>
        artifact_type == ArtifactTypeOf(lowered)
        after == Added(conversation, artifact_type, generated.text)
    IN  IF prompt = <<>>
        THEN Answer(400, <<>>, session, <<>>, "", <<>>, <<>>)
        ELSE IF loaded.outcome = "ValueError"
        THEN Answer(500, <<>>, session, load_calls, "ValueError", <<>>, <<>>)
        ELSE IF ~kept /\ ~topic_match.matched
        THEN Answer(400, <<>>, session, load_calls, "", <<>>, <<>>)
        ELSE IF ~kept /\ InitRaises(PyStr(topic))
        THEN Answer(500, <<>>, session, load_calls \o <<"__init__">>,
                    "ValueError", <<>>, <<>>)
        ELSE IF \/ \E keyword \in Keywords : Contains(lowered, keyword)
                \/ Contains(lowered,
                      <<"t", "r", "a", "c", "e", "a", "b", "i", "l", "i",
                        "t", "y", " ", "m", "a", "t", "r", "i", "x">>)
        THEN IF generated.raises
             THEN Answer(500, <<conversation>>, session_now, calls,
                         "Exception", <<>>, <<>>)
             ELSE Answer(200, <<conversation>>, session_now, calls, "",
                         <<>>, <<>>)
        ELSE IF generated.raises
        THEN Answer(500, <<conversation>>, session_now,
                    calls \o <<"get_context_for_text_generation">>,
                    "Exception", read, <<>>)
        ELSE Answer(200, <<after>>, Saved(after),
                    calls \o <<"get_context_for_text_generation",
                               "add_artifact", "to_dict">>,
                    "", read, artifact_type)

\* morphism_proof (lines 116-153) with generate_morphism_proof
\* (api_integration.py, lines 116-128), whose own handler turns an
\* exception into the text of the response. The session is assigned only
\* for a new Conversation, before the proof is stored: that dict shares its
\* artifacts with the Conversation and is written to the cookie with the
\* proof in it. For a loaded Conversation nothing marks the session as
\* modified, and the cookie keeps what it held.
morphism_proof_answer(session, form_prompt, generated) ==
    LET prompt == Strip(form_prompt)
        loaded == Loaded(session)
        load_calls == LoadCalls(session)
        kept == loaded.outcome = "Conversation"
        match == MorphismMatchFrom(prompt, 1)
        system_a_desc == Strip(match.group1)
        conversation ==
            IF kept
            THEN Conv(loaded.system_topic, loaded.artifacts, loaded.traces,
                      loaded.counter)
            ELSE Conv(system_a_desc, <<>>, <<>>, 0)
        calls == IF kept THEN load_calls
                 ELSE load_calls \o <<"__init__", "to_dict">>
        session_now == IF kept THEN session ELSE Saved(conversation)
        after == Added(conversation, Str_morphism_proof, generated.text)
    IN  IF prompt = <<>>
        THEN Answer(400, <<>>, session, <<>>, "", <<>>, <<>>)
        ELSE IF loaded.outcome = "ValueError"
        THEN Answer(500, <<>>, session, load_calls, "ValueError", <<>>, <<>>)
        ELSE IF ~match.matched
        THEN Answer(400, IF kept THEN <<conversation>> ELSE <<>>, session,
                    load_calls, "", <<>>, <<>>)
        ELSE IF ~kept /\ InitRaises(PyStr(system_a_desc))
        THEN Answer(500, <<>>, session, load_calls \o <<"__init__">>,
                    "ValueError", <<>>, <<>>)
        ELSE IF generated.raises
        THEN Answer(200, <<conversation>>, session_now, calls, "Exception",
                    <<>>, <<>>)
        ELSE IF ~Contains(generated.text, Str_Homomorphism_Proof)
        THEN Answer(200, <<conversation>>, session_now, calls, "ValueError",
                    <<>>, <<>>)
        ELSE Answer(200, <<after>>,
                    IF kept THEN session ELSE Saved(after),
                    calls \o <<"add_artifact">>, "", <<>>,
                    Str_morphism_proof)

\* the state a handler leaves: the Conversation variables show the object
\* the handler held when it answered, and context what it read, if anything
Leaves(route, answer) ==
    /\ turn' = <<[route |-> route, status |-> answer.status,
                  calls |-> answer.calls,
                  artifact_type |-> answer.artifact_type]>>
    /\ snapshot' = answer.session
    /\ exists' = (answer.held # <<>>)
    /\ system_topic' =
          IF answer.held = <<>> THEN <<>> ELSE answer.held[1].system_topic
    /\ artifacts' =
          IF answer.held = <<>> THEN <<>> ELSE answer.held[1].artifacts
    /\ traces' = IF answer.held = <<>> THEN <<>> ELSE answer.held[1].traces
    /\ artifact_counter' =
          IF answer.held = <<>> THEN 0 ELSE answer.held[1].counter
    /\ op' = IF answer.calls = <<>> THEN op
             ELSE answer.calls[Len(answer.calls)]
    /\ raised' = answer.raised
    /\ context' = IF answer.context = <<>> THEN <<>> ELSE answer.context[1]

chat(form_prompt, generated) ==
    \E answer \in {chat_answer(snapshot, form_prompt, generated)} :
       /\ IF answer.held = <<>> THEN TRUE
          ELSE answer.held[1].counter <= MaxCounter
       /\ Leaves("/chat", answer)
       /\ UNCHANGED <<hashseed, verification>>

morphism_proof(form_prompt, generated) ==
    \E answer \in {morphism_proof_answer(snapshot, form_prompt, generated)} :
       /\ IF answer.held = <<>> THEN TRUE
          ELSE answer.held[1].counter <= MaxCounter
       /\ Leaves("/morphism_proof", answer)
       /\ UNCHANGED <<hashseed, verification>>

\* clear_context (lines 156-159): session.pop('conversation', None)
clear_context ==
    /\ Leaves("/clear_context",
              Answer(200, <<>>, <<>>, <<>>, "", <<>>, <<>>))
    /\ UNCHANGED <<hashseed, verification>>

\* what the user types into the chat form: nothing, 'Create system
\* requirements for a drone.', 'system design ', 'Verification Model',
\* 'verification requirement', 'hello', 'traceability matrix', 'graph' and
\* 'text for .'
ChatPrompts ==
    { <<>>,
      <<"C", "r", "e", "a", "t", "e", " ", "s", "y", "s", "t", "e", "m",
        " ", "r", "e", "q", "u", "i", "r", "e", "m", "e", "n", "t", "s",
        " ", "f", "o", "r", " ", "a", " ", "d", "r", "o", "n", "e", ".">>,
      <<"s", "y", "s", "t", "e", "m", " ", "d", "e", "s", "i", "g", "n",
        " ">>,
      <<"V", "e", "r", "i", "f", "i", "c", "a", "t", "i", "o", "n", " ",
        "M", "o", "d", "e", "l">>,
      <<"v", "e", "r", "i", "f", "i", "c", "a", "t", "i", "o", "n", " ",
        "r", "e", "q", "u", "i", "r", "e", "m", "e", "n", "t">>,
      <<"h", "e", "l", "l", "o">>,
      <<"t", "r", "a", "c", "e", "a", "b", "i", "l", "i", "t", "y", " ",
        "m", "a", "t", "r", "i", "x">>,
      <<"g", "r", "a", "p", "h">>,
      <<"t", "e", "x", "t", " ", "f", "o", "r", " ", ".">> }

\* what the user types into the proof form: nothing, 'proof for a drone
\* and a car.' and 'proof'
MorphismPrompts ==
    { <<>>,
      <<"p", "r", "o", "o", "f", " ", "f", "o", "r", " ", "a", " ", "d",
        "r", "o", "n", "e", " ", "a", "n", "d", " ", "a", " ", "c", "a",
        "r", ".">>,
      <<"p", "r", "o", "o", "f">> }

\* what the generator gives for a chat prompt: a failure, or a text
ChatGenerated ==
    { [raises |-> TRUE, text |-> <<>>],
      [raises |-> FALSE, text |-> <<"x">>] }

\* what the generator gives for a proof: a failure, a proof, another text
MorphismGenerated ==
    { [raises |-> TRUE, text |-> <<>>],
      [raises |-> FALSE, text |-> Str_Homomorphism_Proof],
      [raises |-> FALSE, text |-> <<"x">>] }

NextApp ==
    \/ \E form_prompt \in ChatPrompts, generated \in ChatGenerated :
          chat(form_prompt, generated)
    \/ \E form_prompt \in MorphismPrompts, generated \in MorphismGenerated :
          morphism_proof(form_prompt, generated)
    \/ clear_context

\* the application never calls build_traces, so that no set is iterated and
\* one hash seed stands for all
InitApp == InitStart /\ hashseed = 0

SpecApp == InitApp /\ [][NextApp]_vars

-----------------------------------------------------------------------------
(* Vocabulary of the properties. *)

TraceSet == Range(traces)

TypeOf(id) == Get(artifacts, id).type

\* position i of text holds id as a whole token
MentionedAt(text, id, i) ==
    /\ MatchLit(text, i, id, FALSE)
    /\ i = 1 \/ text[i - 1] \notin WordChars
    /\ i + Len(id) > Len(text) \/ text[i + Len(id)] \notin WordChars

\* the text mentions the id
Mentions(text, id) == \E i \in 1..Len(text) : MentionedAt(text, id, i)

\* the text mentions the id more than once
MentionsTwice(text, id) ==
    \E i, k \in 1..Len(text) :
        i < k /\ MentionedAt(text, id, i) /\ MentionedAt(text, id, k)

\* Requirement -> Design -> Verification, as ordered pairs of types
Downward == {<<SR, SD>>, <<SR, VR>>, <<SR, VM>>, <<SD, VR>>, <<SD, VM>>}

\* the unordered type pairs of the directionality table
TablePairs == {{SR, SD}, {SR, VR}, {SR, VM}, {SD, VR}, {SD, VM}}

\* the number an id ends with
NumericSuffix(id) ==
    ToInt(SubSeq(id, SkipBackward(id, Len(id), Digits) + 1, Len(id)))

-----------------------------------------------------------------------------
(* Properties of build_traces. *)

\* C1: after build_traces, a stored SR artifact A and a stored SD artifact B
\* of which at least one mentions the other are linked by (A.id, B.id) and
\* not by (B.id, A.id).
C1_RequirementDesignEdge ==
    op = "build_traces" =>
        \A i, j \in DOMAIN artifacts :
            (/\ artifacts[i].type = SR
             /\ artifacts[j].type = SD
             /\ \/ Mentions(artifacts[i].text, artifacts[j].id)
                \/ Mentions(artifacts[j].text, artifacts[i].id))
            => /\ <<artifacts[i].id, artifacts[j].id>> \in TraceSet
               /\ <<artifacts[j].id, artifacts[i].id>> \notin TraceSet

\* C1 witness: after a build, only the design mentions the requirement and
\* the edge runs from the requirement to the design.
C1_Witness ==
    /\ op = "build_traces"
    /\ \E i, j \in DOMAIN artifacts :
        /\ artifacts[i].type = SR
        /\ artifacts[j].type = SD
        /\ ~Mentions(artifacts[i].text, artifacts[j].id)
        /\ Mentions(artifacts[j].text, artifacts[i].id)
        /\ traces = <<<<artifacts[i].id, artifacts[j].id>>>>

\* C2: immediately after build_traces every pair of the trace list points
\* down the hierarchy, by the types stored under its two ids.
C2_EdgesPointDown ==
    op = "build_traces" =>
        \A p \in TraceSet : <<TypeOf(p[1]), TypeOf(p[2])>> \in Downward

\* C2 witness: after a build, an edge from a design to a verification method
\* that only the verification method's text gave rise to.
C2_Witness ==
    /\ op = "build_traces"
    /\ \E i, j \in DOMAIN artifacts :
        /\ artifacts[i].type = SD
        /\ artifacts[j].type = VM
        /\ ~Mentions(artifacts[i].text, artifacts[j].id)
        /\ Mentions(artifacts[j].text, artifacts[i].id)
        /\ <<artifacts[i].id, artifacts[j].id>> \in TraceSet

\* C3: after build_traces no pair of the trace list joins two artifacts
\* whose unordered type pair is outside the directionality table.
C3_NoEdgeOutsideTable ==
    op = "build_traces" =>
        \A i, j \in DOMAIN artifacts :
            {artifacts[i].type, artifacts[j].type} \notin TablePairs
            => <<artifacts[i].id, artifacts[j].id>> \notin TraceSet

\* C3 witness: after a build, a VR artifact and a VM artifact of which one
\* mentions the other, and an empty trace list.
C3_Witness ==
    /\ op = "build_traces"
    /\ traces = <<>>
    /\ \E i, j \in DOMAIN artifacts :
        /\ artifacts[i].type = VR
        /\ artifacts[j].type = VM
        /\ Mentions(artifacts[i].text, artifacts[j].id)

\* C4: in every reachable state the trace list holds no pair (x, x).
C4_NoSelfLoop == \A p \in TraceSet : p[1] # p[2]

\* C4 witness: after a build that produced an edge, an artifact whose text
\* mentions its own id.
C4_Witness ==
    /\ op = "build_traces"
    /\ traces # <<>>
    /\ \E i \in DOMAIN artifacts :
        /\ Mentions(artifacts[i].text, artifacts[i].id)
        /\ \E p \in TraceSet : artifacts[i].id \in {p[1], p[2]}

\* C5: in every reachable state no ordered pair occurs twice in the trace
\* list.
C5_NoDuplicatePair ==
    \A i, j \in DOMAIN traces : i # j => traces[i] # traces[j]

\* C5 witness: after a build, two artifacts that mention each other, one of
\* them twice, and a trace list of one pair.
C5_Witness ==
    /\ op = "build_traces"
    /\ Len(traces) = 1
    /\ \E i, j \in DOMAIN artifacts :
        /\ i # j
        /\ MentionsTwice(artifacts[i].text, artifacts[j].id)
        /\ Mentions(artifacts[j].text, artifacts[i].id)

\* C6: a build_traces that follows a build_traces directly leaves the trace
\* list as it was, as an ordered sequence.
C6_BuildTwiceSameList ==
    [][(op = "build_traces" /\ op' = "build_traces") => traces' = traces]_vars

\* C6 witness: after a build, an artifact that mentions two other stored
\* ids, each of which gave an edge.
C6_Witness ==
    /\ op = "build_traces"
    /\ \E i, j, k \in DOMAIN artifacts :
        /\ i # j /\ i # k /\ j # k
        /\ Mentions(artifacts[i].text, artifacts[j].id)
        /\ Mentions(artifacts[i].text, artifacts[k].id)
        /\ <<artifacts[j].id, artifacts[i].id>> \in TraceSet
        /\ <<artifacts[k].id, artifacts[i].id>> \in TraceSet

\* C7: in every reachable state both ends of every pair are keys of the
\* artifact dict; and after a build of a store that holds exactly an SR
\* artifact and a VM artifact whose text mentions the SR id and the id
\* ZZ-999, which is no key, the trace list is the one pair (SR id, VM id).
C7_EndpointsAreKeys ==
    /\ \A p \in TraceSet : p[1] \in Keys(artifacts) /\ p[2] \in Keys(artifacts)
    /\ (op = "build_traces" /\ Len(artifacts) = 2) =>
        \A i, j \in DOMAIN artifacts :
            (/\ artifacts[i].type = SR
             /\ artifacts[j].type = VM
             /\ Mentions(artifacts[j].text, artifacts[i].id)
             /\ Mentions(artifacts[j].text, Str_ZZ999)
             /\ Str_ZZ999 \notin Keys(artifacts))
            => traces = <<<<artifacts[i].id, artifacts[j].id>>>>

\* C7 witness: that store, after the build.
C7_Witness ==
    /\ op = "build_traces"
    /\ Len(artifacts) = 2
    /\ Len(traces) = 1
    /\ \E i, j \in DOMAIN artifacts :
        /\ artifacts[i].type = SR
        /\ artifacts[j].type = VM
        /\ Mentions(artifacts[j].text, artifacts[i].id)
        /\ Mentions(artifacts[j].text, Str_ZZ999)

-----------------------------------------------------------------------------
(* Properties of the id assignment. *)

\* C8: an add_artifact that synthesizes an id (it moves the counter) stores
\* under an id that was no key before, so the set of keys changes.
C8_SynthesizedIdIsNew ==
    [][artifact_counter' # artifact_counter
        => Keys(artifacts') # Keys(artifacts)]_vars

\* C9: after N add_artifact calls whose texts carry no header, from a new
\* Conversation, the store holds N artifacts under pairwise distinct ids
\* that end in 1, 2, ..., N in call order.
C9_FreshIdsCountUp ==
    /\ Len(artifacts) = artifact_counter
    /\ \A i \in DOMAIN artifacts : NumericSuffix(artifacts[i].id) = i
    /\ \A i, j \in DOMAIN artifacts :
          i # j => artifacts[i].id # artifacts[j].id

\* C9 witness: two artifacts of different types stored by two such calls.
C9_Witness ==
    /\ Len(artifacts) >= 2
    /\ artifacts[1].type # artifacts[2].type
    /\ artifact_counter >= 2

\* C10: an add_artifact whose text carries the header of id h stores the
\* artifact under h with the declared type, leaves the counter alone, and
\* adds at most the key h to the dict (no key when h was one already).
C10_HeaderDictatesId ==
    [][\A ty \in HeadedTypes, h \in HeadedTexts :
          add_artifact(ty, h.text)
          => /\ h.id \in Keys(artifacts')
             /\ Get(artifacts', h.id).type = ty
             /\ artifact_counter' = artifact_counter
             /\ Keys(artifacts') = Keys(artifacts) \cup {h.id}
             /\ h.id \in Keys(artifacts) => Keys(artifacts') = Keys(artifacts)]_vars

\* C10 witness: the counter has moved, and an id larger than the counter,
\* dictated by a text of another type, is a key.
C10_Witness ==
    /\ op = "add_artifact"
    /\ artifact_counter >= 1
    /\ Str_SR003 \in Keys(artifacts)
    /\ Get(artifacts, Str_SR003).type = VM
    /\ NumericSuffix(Str_SR003) > artifact_counter

-----------------------------------------------------------------------------
(* Properties of to_dict and from_dict. *)

\* the greatest number an id of the map ends with, 0 for the empty map
MaxSuffix(arts) == SetMax({NumericSuffix(id) : id \in Keys(arts)} \cup {0})

\* the inputs of the session whose text dictates no id
HeaderlessSession == {input \in InputsSession : HeaderId(input.text) = <<>>}

\* C11: from_dict(c.to_dict()) is a Conversation whose topic, artifact map
\* (ids, types, texts, components) and ordered trace list equal those of c.
C11_RoundTripKeepsState ==
    [][(op = "to_dict" /\ from_dict(snapshot[1]))
       => /\ exists'
          /\ system_topic' = system_topic
          /\ artifacts' = artifacts
          /\ traces' = traces]_vars

C11_Witness ==
    /\ op = "from_dict"
    /\ exists
    /\ Len(artifacts) >= 2
    /\ \E i \in DOMAIN artifacts :
          artifacts[i].components = <<[name |-> <<"C">>, details |-> <<<<"d">>>>]>>
    /\ traces # <<>>
    /\ snapshot[1].traces = traces

\* C12: after from_dict(data) the counter is the greatest numeric suffix
\* over the keys of data's artifact map, 0 for an empty map, whatever the
\* counter of the Conversation that produced data was.
C12_CounterIsMaxSuffix ==
    (op = "from_dict" /\ exists) => artifact_counter = MaxSuffix(artifacts)

\* ids dictated only: the Conversation that was saved had counter 0
C12_Witness ==
    /\ op = "from_dict"
    /\ exists
    /\ Keys(artifacts) = {Str_SR001, Str_SD002}
    /\ Len(artifacts) = 2
    /\ artifact_counter = 2

\* C13: right after from_dict, the first add_artifact whose text has no
\* header stores its artifact under an id that was not a key of the map.
C13_FirstIdAfterRestoreIsNew ==
    [][(op = "from_dict"
        /\ \E input \in HeaderlessSession : add_artifact(input.type, input.text))
       => /\ Keys(artifacts') # Keys(artifacts)
          /\ Len(artifacts') = Len(artifacts) + 1]_vars

\* a dictated SR-001 and a synthesized VM-002 alone: the counter was 1
\* before the insertion, and only from_dict can have set it
C13_Witness ==
    /\ op = "add_artifact"
    /\ Len(artifacts) = 2
    /\ Keys(artifacts) = {Str_SR001, <<"V", "M", "-", "0", "0", "2">>}

-----------------------------------------------------------------------------
(* Properties of add_artifact as a store. *)

\* the text begins with 'id: ### id: ', in any case of letters
BeginsWithDuplicatedHeader(text, id) ==
    MatchLit(text, 1, DuplicatedHeader(id), TRUE)

\* C14: the text stored under an id never begins with the duplicated
\* header of that id, however often the input text began with it.
C14_NoDuplicatedHeaderLeft ==
    \A i \in DOMAIN artifacts :
        ~BeginsWithDuplicatedHeader(artifacts[i].text, artifacts[i].id)

\* the inputs of the store that lack a type or a text
EmptyInputs == {input \in InputsStore : input.type = <<>> \/ input.text = <<>>}

\* C15: add_artifact with an empty type or an empty text raises nothing and
\* leaves the artifact map, the trace list, the topic and the counter alone.
C15_EmptyInputIsSkipped ==
    [][\A input \in EmptyInputs :
          add_artifact(input.type, input.text)
          => /\ raised' = ""
             /\ UNCHANGED <<system_topic, artifacts, traces, artifact_counter>>]_vars

\* add_artifact has returned and the store is still empty: the call had no
\* type or no text, since any other call stores an artifact
C15_Witness ==
    /\ op = "add_artifact"
    /\ artifacts = <<>>
    /\ artifact_counter = 0

\* the texts of the store for the id SR-003, with what is to be stored
OverwriteInputs == {
    [type |-> SR, text |-> DuplicatedHeader(Str_SR003) \o <<"x">>,
     stored |-> <<"x">>, components |-> <<>>],
    [type |-> VM, text |-> HeaderLine(Str_SR003) \o <<"y">> \o ComponentLine,
     stored |-> HeaderLine(Str_SR003) \o <<"y">> \o ComponentLine,
     components |-> <<[name |-> <<"C">>, details |-> <<<<"d">>>>]>>] }

\* C17: an add_artifact whose id is a key already replaces the type, the
\* text and the components stored under it by those of the new call, and
\* leaves the number of artifacts and every other artifact as they were.
C17_LastWriteWins ==
    [][\A input \in OverwriteInputs :
          (Str_SR003 \in Keys(artifacts) /\ add_artifact(input.type, input.text))
          => /\ Len(artifacts') = Len(artifacts)
             /\ Get(artifacts', Str_SR003) =
                    [id |-> Str_SR003, type |-> input.type,
                     text |-> input.stored, components |-> input.components]
             /\ \A i \in DOMAIN artifacts :
                    artifacts[i].id # Str_SR003 => artifacts'[i] = artifacts[i]]_vars

\* SR-003 was a requirement when the pair (SR-003, VM-001) was built, and
\* is a verification method with a component now: it has been overwritten,
\* and VM-001, stored after it, is still in its place
C17_Witness ==
    /\ op = "add_artifact"
    /\ traces = <<<<Str_SR003, <<"V", "M", "-", "0", "0", "1">>>>>>
    /\ artifacts[1].id = Str_SR003
    /\ artifacts[1].type = VM
    /\ artifacts[1].components # <<>>
    /\ artifacts[2].id = <<"V", "M", "-", "0", "0", "1">>

\* no text of the store mentions the id of another artifact of the store
NoCrossMention ==
    \A i, j \in DOMAIN artifacts :
        i # j => ~Mentions(artifacts[i].text, artifacts[j].id)

\* C19: add_artifact and build_traces raise nothing, whatever the types and
\* texts; and when no text mentions the id of another stored artifact,
\* build_traces leaves the trace list empty.
C19_NoRaiseNoEdgeWithoutMention ==
    /\ raised = ""
    /\ (op = "build_traces" /\ NoCrossMention) => traces = <<>>

\* a requirement, a design whose text holds 'SR-003_x', and an artifact of
\* a type outside the table, after build_traces
C19_Witness ==
    /\ op = "build_traces"
    /\ NoCrossMention
    /\ traces = <<>>
    /\ \E i, j, k \in DOMAIN artifacts :
          /\ artifacts[i].type = SR
          /\ artifacts[j].type = SD /\ artifacts[j].text = Str_SR003_x
          /\ artifacts[k].type = Unknown

-----------------------------------------------------------------------------
(* Properties of construction, of the life of the store and of the context. *)

\* the topics that are empty or not a string
BadTopics == {PyStr(<<>>), PyNone, PyList(<<"d", "r", "o", "n", "e">>)}

\* C16: constructing with an empty topic, or one that is not a string,
\* raises and gives no Conversation; from_dict gives None (and raises
\* nothing) for an empty payload and for one without the topic key, and
\* raises that same error for a payload whose topic is empty; no other call
\* raises.
C16_OnlyTheTopicIsAnError ==
    [][/\ \A topic \in TopicInputs :
             Conversation_init(topic)
             => IF topic \in BadTopics
                THEN raised' = "ValueError" /\ ~exists'
                ELSE raised' = "" /\ exists' /\ system_topic' = topic.val
       /\ (from_dict(EmptyPayload) \/ from_dict(NoTopicPayload))
             => (raised' = "" /\ ~exists')
       /\ from_dict(EmptyTopicPayload) => (raised' = "ValueError" /\ ~exists')
       /\ raised' # ""
             => (raised' = "ValueError" /\ op' \in {"__init__", "from_dict"})]_vars

\* a Conversation had been saved, and from_dict raised the error of
\* construction
C16_Witness ==
    /\ op = "from_dict"
    /\ raised = "ValueError"
    /\ ~exists
    /\ snapshot # <<>>

\* the pair can be derived from the artifacts: both ids are keys, their
\* types are in the order of the hierarchy, and one text mentions the other id
Derivable(pair, arts) ==
    /\ pair[1] \in Keys(arts)
    /\ pair[2] \in Keys(arts)
    /\ <<Get(arts, pair[1]).type, Get(arts, pair[2]).type>> \in Downward
    /\ \/ Mentions(Get(arts, pair[1]).text, pair[2])
       \/ Mentions(Get(arts, pair[2]).text, pair[1])

\* C18 as stated: no artifact id ever leaves the map and no pair ever leaves
\* the trace list.
C18_NothingEverLeaves ==
    [][/\ Keys(artifacts) \subseteq Keys(artifacts')
       /\ Range(traces) \subseteq Range(traces')]_vars

\* C18: no artifact id ever leaves the map; add_artifact leaves the trace
\* list as it is; build_traces keeps every pair that the artifacts still
\* give (and drops the others, since it builds the list anew).
C18_IdsStayPairsStayWhileDerivable ==
    [][/\ Keys(artifacts) \subseteq Keys(artifacts')
       /\ op' = "add_artifact" => traces' = traces
       /\ op' = "build_traces"
             => \A n \in DOMAIN traces :
                    Derivable(traces[n], artifacts) => traces[n] \in Range(traces')]_vars

\* add_artifact has overwritten an artifact of a pair, and the pair, which
\* the artifacts no longer give, is still in the list
C18_Witness ==
    /\ op = "add_artifact"
    /\ \E n \in DOMAIN traces : ~Derivable(traces[n], artifacts)

\* C20: get_context_for_text_generation returns a mapping whose keys are
\* 'system_topic' and the ids of the artifacts, with the topic and the
\* artifacts as values, and leaves topic, artifacts, traces and counter alone.
C20_ContextIsTopicAndArtifacts ==
    [][op' = "get_context_for_text_generation"
       => /\ {context'[n].key : n \in DOMAIN context'}
                = {TopicKey} \cup Keys(artifacts)
          /\ Len(context') = Len(artifacts) + 1
          /\ \A n \in DOMAIN context' :
                IF context'[n].key = TopicKey
                THEN context'[n].value = system_topic
                ELSE context'[n].value = Get(artifacts, context'[n].key)
          /\ UNCHANGED <<system_topic, artifacts, traces, artifact_counter>>]_vars

\* the context of a store of two artifacts, one of them with a component
C20_Witness ==
    /\ op = "get_context_for_text_generation"
    /\ Len(artifacts) = 2
    /\ Len(context) = 3
    /\ \E i \in DOMAIN artifacts : artifacts[i].components # <<>>

-----------------------------------------------------------------------------
(* Properties of the trace list as a function of the artifacts. *)

\* the pairs of keys that the artifacts give
DerivablePairs(arts) ==
    {pair \in Keys(arts) \X Keys(arts) : Derivable(pair, arts)}

\* C23: the set of pairs after build_traces is given by the artifact map
\* alone: neither the list before the call nor the order in which the
\* artifacts and the ids found in a text are visited has a part in it.
C23_TracesFromArtifactsAlone ==
    op = "build_traces" => Range(traces) = DerivablePairs(artifacts)

\* three pairs, built under the second iteration order, by artifacts of
\* which one mentions two others
C23_Witness ==
    /\ op = "build_traces"
    /\ hashseed = 1
    /\ Len(traces) >= 3
    /\ \E i, j, k \in DOMAIN artifacts :
          /\ j # k
          /\ Mentions(artifacts[i].text, artifacts[j].id)
          /\ Mentions(artifacts[i].text, artifacts[k].id)

-----------------------------------------------------------------------------
(* Properties of the components. *)

\* the line has the form '- **Name:** rest'
WellFormedOpening(line) ==
    /\ StartsWith(line, Bullet)
    /\ \E c \in 5..Len(line) : MatchLit(line, c, LabelClose, FALSE)

\* the position of the first ':**' of such a line
CloseIn(line) ==
    SetMin({c \in 5..Len(line) : MatchLit(line, c, LabelClose, FALSE)})

NameOf(line) == Strip(SubSeq(line, 5, CloseIn(line) - 1))

RemainderOf(line) == Strip(SubSeq(line, CloseIn(line) + 3, Len(line)))

\* the components read line by line: an opening line starts a component
\* whose first detail is its remainder, if any; any other non-blank line is
\* a detail of the component that is open
RECURSIVE LineWalk(_, _)
LineWalk(lines, components) ==
    IF lines = <<>> THEN components
    ELSE LET line == Head(lines)
             n == Len(components)
         IN  IF WellFormedOpening(line)
             THEN LineWalk(Tail(lines),
                      Append(components,
                             [name |-> NameOf(line),
                              details |-> IF RemainderOf(line) = <<>> THEN <<>>
                                          ELSE <<RemainderOf(line)>>]))
             ELSE IF n > 0 /\ Strip(line) # <<>>
             THEN LineWalk(Tail(lines),
                      [components EXCEPT ![n].details = Append(@, Strip(line))])
             ELSE LineWalk(Tail(lines), components)

OpeningLines(text) ==
    {l \in DOMAIN SplitLines(text) : WellFormedOpening(SplitLines(text)[l])}

BulletLines(text) ==
    {l \in DOMAIN SplitLines(text) : StartsWith(SplitLines(text)[l], Bullet)}

\* C24: each line '- **Name:** rest' gives exactly one component, named
\* Name, and no name runs over a line break, also when other lines start
\* with '- **' and have no ':**'.
C24_OneComponentPerOpeningLine ==
    \A i \in DOMAIN artifacts :
        LET lines == SplitLines(artifacts[i].text)
            opening == SelectSeq(lines, WellFormedOpening)
            components == artifacts[i].components
        IN  opening # <<>>
            => /\ Len(components) = Len(opening)
               /\ \A n \in DOMAIN components :
                     /\ components[n].name = NameOf(opening[n])
                     /\ "\n" \notin Range(components[n].name)

C30_NoEmptyDetail ==
    \A i \in DOMAIN artifacts :
        \A n \in DOMAIN artifacts[i].components :
            \A d \in DOMAIN artifacts[i].components[n].details :
                artifacts[i].components[n].details[d] # <<>>

-----------------------------------------------------------------------------
(* Properties of the trace list between two builds. *)

\* the pair points down the hierarchy by the types stored now
PointsDown(pair, arts) ==
    <<Get(arts, pair[1]).type, Get(arts, pair[2]).type>> \in Downward

\* C28 as stated: in every reachable state every pair of the trace list
\* points down the hierarchy by the types currently stored.
C28_PairsPointDownAlways ==
    \A n \in DOMAIN traces : PointsDown(traces[n], artifacts)

\* C28: add_artifact never modifies the trace list, and right after
\* build_traces every pair points down the hierarchy by the types stored;
\* after an overwrite with another type the earlier pairs stay as they are,
\* whatever the types now say, until the next build_traces.
C28_PairsPointDownAfterBuild ==
    [][/\ op' = "add_artifact" => traces' = traces
       /\ op' = "build_traces"
             => \A n \in DOMAIN traces' : PointsDown(traces'[n], artifacts')]_vars

\* a pair that was built is still in the list after add_artifact, and the
\* types stored now no longer put it in hierarchy order
C28_Witness ==
    /\ op = "add_artifact"
    /\ \E n \in DOMAIN traces : ~PointsDown(traces[n], artifacts)

-----------------------------------------------------------------------------
(* Properties of the counter. *)

\* C29: the counter is 0 or at most the greatest numeric suffix among the
\* stored ids; it never decreases under add_artifact or build_traces, and
\* from_dict(c.to_dict()) has a counter that is not lower than that of c.
C29_CounterBoundedAndMonotone ==
    [][/\ exists'
          => (artifact_counter' = 0 \/ artifact_counter' <= MaxSuffix(artifacts'))
       /\ op' \in {"add_artifact", "build_traces"}
          => artifact_counter' >= artifact_counter
       /\ (op = "to_dict" /\ from_dict(snapshot[1]))
          => artifact_counter' >= artifact_counter]_vars

\* a restored Conversation that holds the synthesized id SD-001 and the
\* dictated id SD-002: its counter is 2, the greatest suffix
C29_Witness ==
    /\ op = "from_dict"
    /\ exists
    /\ artifact_counter = 2
    /\ Keys(artifacts) = {<<"S", "D", "-", "0", "0", "1">>, Str_SD002}
    /\ Get(artifacts, Str_SD002).text # <<"x">>

-----------------------------------------------------------------------------
(* Properties of the snapshot as a value. *)

\* C26: an add_artifact, on the Conversation that was saved or on the one
\* from_dict built from the snapshot, does not change a snapshot that
\* to_dict returned before.
C26_SnapshotIsIndependent ==
    [][op' = "add_artifact" => snapshot' = snapshot]_vars

-----------------------------------------------------------------------------
\* C22: execute() returns exactly what target_vr.verify(related_design)
\* returns, which is exactly what the property returns on that design, with
\* any parameterization in place of the method's own; check(model) returns
\* exactly what the predicate returns on the model, True for a requirement
\* the model satisfies and False for one it does not.
C22_ExecuteIsThePropertyOnTheDesign ==
    verification # <<>> =>
        LET called == verification[1]
            self == called.self
        IN  /\ called.call = "execute" =>
                 /\ called.returned = verify(self.target_vr, self.related_design)
                 /\ called.returned = Call(self.target_vr.property,
                                           self.related_design)
                 /\ \A params \in Parameterizations :
                       execute([self EXCEPT !.parameterization = params])
                          = called.returned
            /\ called.call = "check" =>
                 /\ called.returned = Call(self.predicate, called.model)
                 /\ self.predicate = "at_least_two_states" =>
                       called.returned
                          = PyBool(Cardinality(called.model.S) >= 2)
                 /\ self.predicate = "more_than_five_inputs" =>
                       called.returned = PyBool(FALSE)

\* the method of test_verification_method, with its parameter, has passed
C22_Witness ==
    /\ verification # <<>>
    /\ verification[1].call = "execute"
    /\ verification[1].self.parameterization # <<>>
    /\ verification[1].self.target_vr.property = "IoX1_exists"
    /\ verification[1].self.related_design
          = SystemDesign({"S1", "S2"}, {"IoX1", "IoX2"}, "setUp")
    /\ verification[1].returned = PyBool(TRUE)

-----------------------------------------------------------------------------
\* the ids of the form two capital letters, hyphen, digits
TwoLettersHyphenDigits(id) ==
    /\ Len(id) >= 4
    /\ id[1] \in UpperLetters
    /\ id[2] \in UpperLetters
    /\ id[3] = "-"
    /\ \A i \in 4..Len(id) : id[i] \in Digits

\* C21: every artifact the application has stored, in the Conversation of
\* the request and in the session, has one of the types SR, SD, VR, VM and
\* an id made of two capital letters, a hyphen and digits.
C21_StoredTypesAndIdsAreClosed ==
    LET Closed(arts) ==
            \A i \in DOMAIN arts :
               /\ arts[i].type \in {SR, SD, VR, VM}
               /\ TwoLettersHyphenDigits(arts[i].id)
    IN  /\ Closed(artifacts)
        /\ snapshot # <<>> => Closed(snapshot[1].artifacts)

-----------------------------------------------------------------------------
\* C27: a request that has loaded the Conversation from the session and
\* has called add_artifact on it has assigned conversation.to_dict() to the
\* session after that call and before it answered.
C27_WrittenBackAfterTheMutation ==
    turn # <<>> =>
        LET calls == turn[1].calls
        IN  \A i \in DOMAIN calls :
               "from_dict" \in Range(calls) /\ calls[i] = "add_artifact" =>
                  \E j \in (i + 1)..Len(calls) : calls[j] = "to_dict"

====
